---- MODULE Spec2Model ----
(***************************************************************************)
(* Model of HW_1: the Journal (quota queries over the WaterJournal and     *)
(* CutJournal collections), the WaterRobot and CutRobot agents, and the    *)
(* two scripts watering_script.py and cutting_script.py, each of which may *)
(* be started as a separate OS process against the shared database.        *)
(*                                                                         *)
(* Time.  The clock is a natural number of ticks.  A tick is the finest    *)
(* unit the database keeps (BSON dates hold milliseconds); a second has    *)
(* SubPerSec ticks and a day SecsPerDay seconds, both scaled down.  A time *)
(* t therefore splits into the day DayOf(t), the second of the day (the    *)
(* hour, minute and second fields together) and the sub-second part        *)
(* SubOf(t) (the microsecond field).  Day 0 of the model is a Sunday, so   *)
(* that day 1 starts a new week.  Timestamps are naive local times on both *)
(* sides of every comparison, so no time zone enters.                      *)
(*                                                                         *)
(* Processes.  A process runs one script from its first line to its end;   *)
(* its steps are cut at the database calls (the quota query, the insert)   *)
(* and at the reading of the clock for the entry's timestamp, which is     *)
(* where other processes can come between.                                 *)
(*                                                                         *)
(* Amounts are integers: the script's capacity (5) and the quota limits    *)
(* (2, 8) are Python ints and every amount an agent writes is a difference *)
(* of those.                                                               *)
(*                                                                         *)
(* Specifications.  Spec: the scripts as concurrent processes.  SpecSeq:   *)
(* the scripts one run at a time.  SpecRobot: one WaterRobot driven        *)
(* through its constructor, tank_volume setter, refill_tank and the        *)
(* script's water cycle.  SpecAudit: get_ordering_errors on given          *)
(* collections.  SpecRange: the read operations of Journal (the range      *)
(* audits get_water_errors and get_cut_errors, the ordering audit and the  *)
(* quota queries) on given collections of several days and weeks.          *)
(***************************************************************************)
EXTENDS Integers, Sequences, FiniteSets, TLC

\* ---------------------------------------------------------------- bounds
SubPerSec == 2
SecsPerDay == 2
MaxDay == 1
MaxEntries == 2
MaxAuditLen == 3
MaxAuditTime == 2
MaxRangeLen == 3
MaxRangeDay == 3
MaxRangeWeek == 2

\* ------------------------------------------------------------- constants
DaysPerWeek == 7
max_water == 2
min_water == 1
max_branches == 8
min_branches == 4
ScriptVolume == 5
DefaultWaterLevel == 0
FirstWeek == 1

TicksPerDay == SecsPerDay * SubPerSec
MaxTime == (MaxDay + 1) * TicksPerDay - 1
Weekday0 == DaysPerWeek - 1

\* the OS processes the scheduler runs scripts in
Procs == {1, 2}

VARIABLES
    now,            \* the clock read by datetime.today() and datetime.now()
    water_journal,  \* WaterJournal, in insertion (_id) order
    cut_journal,    \* CutJournal, in insertion (_id) order
    pc,             \* per process: the script it runs and its position in it
    volume,         \* per process: WaterRobot._volume
    water_level,    \* per process: WaterRobot._water_level
    required,       \* per process: water_tree's required_volume
    branches,       \* per process: cut_branches' branches_to_cut
    update_data,    \* per process: update_data of water_tree or cut_branches
    attempts,       \* per process: calls of water_tree in this run
    refills,        \* per process: calls of refill_tank in this run
    recorded,       \* per process: entries inserted in this run
    ordering_errors, \* what the last call of get_ordering_errors returned
    returned,       \* the last call of another read operation of Journal, or
                    \* of the tank_volume setter, and how it ended
    started_on      \* the date on which the water cycle of the robot under
                    \* test was started

pvars == <<pc, volume, water_level, required, branches, update_data,
           attempts, refills, recorded>>
audit_vars == <<ordering_errors, returned, started_on>>
vars == <<now, water_journal, cut_journal, pvars, audit_vars>>

\* ------------------------------------------------------------------ time
DayOf(t) == t \div TicksPerDay
SubOf(t) == t % SubPerSec
Midnight(d) == d * TicksPerDay

\* date.weekday(): Monday is 0, Sunday is 6
weekday(d) == (d + Weekday0) % DaysPerWeek

\* datetime.today().replace(hour=0, minute=0, second=0): the hour, minute and
\* second fields are cleared, the microsecond field is kept
today(t) == Midnight(DayOf(t)) + SubOf(t)

\* today - timedelta(days=today.weekday())
monday_date(t) == today(t) - weekday(DayOf(t)) * TicksPerDay

\* --------------------------------------------------------------- DBHelper
RECURSIVE SumAmounts(_)
SumAmounts(s) == IF s = <<>> THEN 0 ELSE Head(s).amount + SumAmounts(Tail(s))

Matching(collection, value) == SelectSeq(collection, LAMBDA e : e.timestamp >= value)

\* sum_by_field_value(collection, "timestamp", value, <amount field>, "$gte")
sum_by_field_value(collection, value) ==
    LET result == Matching(collection, value)
    IN  IF result # <<>> THEN SumAmounts(result) ELSE 0

\* ---------------------------------------------------------------- mutants
\* Each is a definition of the model changed the way a slip in the code would
\* change it; the claim named with it fails once it takes the definition's place.

\* C3: the quota computed from min_water instead of max_water
get_required_amount_of_water_min(journal, t) ==
    LET todays_water_amount == sum_by_field_value(journal, today(t))
    IN  IF todays_water_amount >= min_water THEN 0
        ELSE min_water - todays_water_amount

\* C8: the quota computed from min_branches instead of max_branches
get_number_of_branches_to_cut_min(journal, t) ==
    LET weeks_branches_amount == sum_by_field_value(journal, monday_date(t))
    IN  IF weeks_branches_amount >= min_branches THEN 0
        ELSE min_branches - weeks_branches_amount

\* C4: the test of required_volume left out
WaterIsDue_always(required_volume) == TRUE

\* C6: the comparison with the level reversed
EnoughWater_reversed(required_volume, level) == required_volume >= level

\* C5: the test of branches_to_cut left out
CutIsDue_always(branches_to_cut) == TRUE

\* C7: the second call of water_tree placed after the try statement instead
\* of inside the except block, so that it also follows a call that returned
script_on_return_again(n) == IF n = 1 THEN "w_read" ELSE "w_done"

\* ---------------------------------------------------------------- Journal
get_required_amount_of_water(journal, t) ==
    LET todays_water_amount == sum_by_field_value(journal, today(t))
    IN  IF todays_water_amount >= max_water THEN 0
        ELSE max_water - todays_water_amount

get_number_of_branches_to_cut(journal, t) ==
    LET weeks_branches_amount == sum_by_field_value(journal, monday_date(t))
    IN  IF weeks_branches_amount >= max_branches THEN 0
        ELSE max_branches - weeks_branches_amount

\* Journal.update: insert_one into the collection of the robot's kind
update(collection, data) == Append(collection, data)

\* C16 (mutant): every robot taken for a CutRobot
is_CutRobot_any(robot) == TRUE

\* isinstance(robot, CutRobot)
is_CutRobot(robot) == robot = "CutRobot"

\* Journal.update(robot, data): the collection is chosen by the robot's
\* class and the document is inserted into it
Journal_update(robot, data) ==
    IF is_CutRobot(robot)
    THEN /\ cut_journal' = update(cut_journal, data)
         /\ UNCHANGED water_journal
    ELSE /\ water_journal' = update(water_journal, data)
         /\ UNCHANGED cut_journal

\* water_tree: if required_volume:
WaterIsDue(required_volume) == required_volume # 0

\* water_tree: if required_volume <= self._water_level:
EnoughWater(required_volume, level) == required_volume <= level

\* cut_branches: if branches_to_cut:
CutIsDue(branches_to_cut) == branches_to_cut # 0

\* C19 (mutant): the script without its except block
script_on_error_uncaught(n) == "w_failed"

\* watering_script.py: where the script goes when call n of water_tree raises
\* NotEnoughWaterError (the first call is inside try, the second inside except)
script_on_error(n) == IF n = 1 THEN "w_refill" ELSE "w_failed"

\* watering_script.py: where the script goes when call n of water_tree returns
script_on_return(n) == "w_done"

NoData == [robot_id |-> "none", amount |-> 0, timestamp |-> 0]

\* ------------------------------------------------------------------- Init
\* the value of a result variable before the first call (no call returns it)
NotCalled == [c \in {"not called"} |-> <<>>]

NoCall == [op |-> "none", outcome |-> "none", value |-> <<>>]

\* no script has been started, no audit has been called
InitProcs ==
    /\ pc = [p \in Procs |-> "idle"]
    /\ volume = [p \in Procs |-> ScriptVolume]
    /\ water_level = [p \in Procs |-> DefaultWaterLevel]
    /\ required = [p \in Procs |-> 0]
    /\ branches = [p \in Procs |-> 0]
    /\ update_data = [p \in Procs |-> NoData]
    /\ attempts = [p \in Procs |-> 0]
    /\ refills = [p \in Procs |-> 0]
    /\ recorded = [p \in Procs |-> 0]
    /\ ordering_errors = NotCalled
    /\ returned = NoCall
    /\ started_on = 0

\* the database is new: neither collection exists yet
Init ==
    /\ now = 0
    /\ water_journal = <<>>
    /\ cut_journal = <<>>
    /\ InitProcs

\* The clock advances.
Tick ==
    /\ now < MaxTime
    /\ now' = now + 1
    /\ UNCHANGED <<water_journal, cut_journal, pvars>>
    /\ UNCHANGED audit_vars

Stopped == {"idle", "w_done", "w_failed", "c_done"}
Running == {p \in Procs : pc[p] \notin Stopped}

\* The scheduler may start a script while the journals have room for the
\* entries of the runs in progress and of the new one.  Stopped processes are
\* interchangeable (a start resets everything), so the lowest one is used.
MayStart(p) ==
    /\ pc[p] \in Stopped
    /\ \A q \in Procs : q < p => q \in Running
    /\ Len(water_journal) + Len(cut_journal) + Cardinality(Running) < MaxEntries

\* ------------------------------------------------------ watering_script.py
\* A process starts the script: WaterRobot('w1', 5) is constructed (the level
\* takes its default) and the try block calls water_tree.
WaterScriptStart(p) ==
    /\ MayStart(p)
    /\ pc' = [pc EXCEPT ![p] = "w_read"]
    /\ volume' = [volume EXCEPT ![p] = ScriptVolume]
    /\ water_level' = [water_level EXCEPT ![p] = DefaultWaterLevel]
    /\ required' = [required EXCEPT ![p] = 0]
    /\ branches' = [branches EXCEPT ![p] = 0]
    /\ update_data' = [update_data EXCEPT ![p] = NoData]
    /\ attempts' = [attempts EXCEPT ![p] = 0]
    /\ refills' = [refills EXCEPT ![p] = 0]
    /\ recorded' = [recorded EXCEPT ![p] = 0]
    /\ UNCHANGED <<now, water_journal, cut_journal>>
    /\ UNCHANGED audit_vars

\* the call of water_tree and its first statement, the quota query
WaterRead(p) ==
    /\ pc[p] = "w_read"
    /\ attempts' = [attempts EXCEPT ![p] = attempts[p] + 1]
    /\ required' = [required EXCEPT ![p] = get_required_amount_of_water(water_journal, now)]
    /\ pc' = [pc EXCEPT ![p] = "w_check"]
    /\ UNCHANGED <<now, water_journal, cut_journal, volume, water_level, branches,
                   update_data, refills, recorded>>
    /\ UNCHANGED audit_vars

\* water_tree, the branches on required_volume, up to the call of update
WaterCheck(p) ==
    /\ pc[p] = "w_check"
    /\ IF WaterIsDue(required[p])
       THEN IF EnoughWater(required[p], water_level[p])
            THEN /\ water_level' = [water_level EXCEPT ![p] = water_level[p] - required[p]]
                 /\ update_data' = [update_data EXCEPT ![p] =
                        [robot_id |-> "w1", amount |-> required[p], timestamp |-> now]]
                 /\ pc' = [pc EXCEPT ![p] = "w_insert"]
                 /\ UNCHANGED required
            ELSE \* NotEnoughWaterError: caught by the script around the first
                 \* call, propagated from the call in the except block
                 /\ pc' = [pc EXCEPT ![p] = script_on_error(attempts[p])]
                 /\ required' = [required EXCEPT ![p] = 0]
                 /\ UNCHANGED <<water_level, update_data>>
       ELSE \* "Tree is already watered"
            /\ pc' = [pc EXCEPT ![p] = script_on_return(attempts[p])]
            /\ UNCHANGED <<water_level, update_data, required>>
    /\ UNCHANGED <<now, water_journal, cut_journal, volume, branches,
                   attempts, refills, recorded>>
    /\ UNCHANGED audit_vars

\* water_tree, journal.update(self, update_data), and the return to the script
\* (the locals of the call end with it)
WaterInsert(p) ==
    /\ pc[p] = "w_insert"
    /\ Journal_update("WaterRobot", update_data[p])
    /\ recorded' = [recorded EXCEPT ![p] = recorded[p] + 1]
    /\ pc' = [pc EXCEPT ![p] = script_on_return(attempts[p])]
    /\ required' = [required EXCEPT ![p] = 0]
    /\ update_data' = [update_data EXCEPT ![p] = NoData]
    /\ UNCHANGED <<now, volume, water_level, branches, attempts, refills>>
    /\ UNCHANGED audit_vars

\* the except block: refill_tank; the second call of water_tree follows
refill_tank(p) ==
    /\ pc[p] = "w_refill"
    /\ water_level' = [water_level EXCEPT ![p] = volume[p]]
    /\ refills' = [refills EXCEPT ![p] = refills[p] + 1]
    /\ pc' = [pc EXCEPT ![p] = "w_read"]
    /\ UNCHANGED <<now, water_journal, cut_journal, volume, required, branches,
                   update_data, attempts, recorded>>
    /\ UNCHANGED audit_vars

\* ------------------------------------------------------- cutting_script.py
\* A process starts the script: CutRobot('c1') is constructed and
\* cut_branches is called.
CutScriptStart(p) ==
    /\ MayStart(p)
    /\ pc' = [pc EXCEPT ![p] = "c_read"]
    /\ volume' = [volume EXCEPT ![p] = ScriptVolume]
    /\ water_level' = [water_level EXCEPT ![p] = DefaultWaterLevel]
    /\ required' = [required EXCEPT ![p] = 0]
    /\ branches' = [branches EXCEPT ![p] = 0]
    /\ update_data' = [update_data EXCEPT ![p] = NoData]
    /\ attempts' = [attempts EXCEPT ![p] = 0]
    /\ refills' = [refills EXCEPT ![p] = 0]
    /\ recorded' = [recorded EXCEPT ![p] = 0]
    /\ UNCHANGED <<now, water_journal, cut_journal>>
    /\ UNCHANGED audit_vars

\* cut_branches, first statement: the quota query
CutRead(p) ==
    /\ pc[p] = "c_read"
    /\ branches' = [branches EXCEPT ![p] = get_number_of_branches_to_cut(cut_journal, now)]
    /\ pc' = [pc EXCEPT ![p] = "c_check"]
    /\ UNCHANGED <<now, water_journal, cut_journal, volume, water_level, required,
                   update_data, attempts, refills, recorded>>
    /\ UNCHANGED audit_vars

\* cut_branches, the branch on branches_to_cut, up to the call of update
CutCheck(p) ==
    /\ pc[p] = "c_check"
    /\ IF CutIsDue(branches[p])
       THEN /\ update_data' = [update_data EXCEPT ![p] =
                   [robot_id |-> "c1", amount |-> branches[p], timestamp |-> now]]
            /\ pc' = [pc EXCEPT ![p] = "c_insert"]
       ELSE \* "No branches to cut"
            /\ pc' = [pc EXCEPT ![p] = "c_done"]
            /\ UNCHANGED update_data
    /\ UNCHANGED <<now, water_journal, cut_journal, volume, water_level, required,
                   branches, attempts, refills, recorded>>
    /\ UNCHANGED audit_vars

\* cut_branches, journal.update(self, update_data), and the return
CutInsert(p) ==
    /\ pc[p] = "c_insert"
    /\ Journal_update("CutRobot", update_data[p])
    /\ recorded' = [recorded EXCEPT ![p] = recorded[p] + 1]
    /\ pc' = [pc EXCEPT ![p] = "c_done"]
    /\ branches' = [branches EXCEPT ![p] = 0]
    /\ update_data' = [update_data EXCEPT ![p] = NoData]
    /\ UNCHANGED <<now, volume, water_level, required, attempts, refills>>
    /\ UNCHANGED audit_vars

Next ==
    \/ Tick
    \/ \E p \in Procs : WaterScriptStart(p)
    \/ \E p \in Procs : WaterRead(p)
    \/ \E p \in Procs : WaterCheck(p)
    \/ \E p \in Procs : WaterInsert(p)
    \/ \E p \in Procs : refill_tank(p)
    \/ \E p \in Procs : CutScriptStart(p)
    \/ \E p \in Procs : CutRead(p)
    \/ \E p \in Procs : CutCheck(p)
    \/ \E p \in Procs : CutInsert(p)

Spec == Init /\ [][Next]_vars

\* ----------------------------------------------- the scripts one at a time
\* The scheduler starts a script only when no run is in progress, so that no
\* quota read of one run falls between the quota read and the insert of
\* another.
NextSeq ==
    \/ Tick
    \/ \E p \in Procs : Running = {} /\ WaterScriptStart(p)
    \/ \E p \in Procs : WaterRead(p)
    \/ \E p \in Procs : WaterCheck(p)
    \/ \E p \in Procs : WaterInsert(p)
    \/ \E p \in Procs : refill_tank(p)
    \/ \E p \in Procs : Running = {} /\ CutScriptStart(p)
    \/ \E p \in Procs : CutRead(p)
    \/ \E p \in Procs : CutCheck(p)
    \/ \E p \in Procs : CutInsert(p)

SpecSeq == Init /\ [][NextSeq]_vars

\* ------------------------------------------------ a WaterRobot under test
\* One WaterRobot object driven through its interface: constructed with any
\* volume, its tank_volume set, its tank refilled, and the script's water
\* cycle (water_tree, and refill_tank and water_tree again on
\* NotEnoughWaterError) run with it, one operation at a time.
TestRobot == 1

RobotVolumes == {0, 1, max_water, ScriptVolume}

\* WaterRobot('w1', new_volume): the dataclass __init__ assigns the fields,
\* the tank_volume setter is not called
WaterRobot_init(p, new_volume) ==
    /\ pc[p] \in Stopped
    /\ pc' = [pc EXCEPT ![p] = "idle"]
    /\ volume' = [volume EXCEPT ![p] = new_volume]
    /\ water_level' = [water_level EXCEPT ![p] = DefaultWaterLevel]
    /\ attempts' = [attempts EXCEPT ![p] = 0]
    /\ refills' = [refills EXCEPT ![p] = 0]
    /\ recorded' = [recorded EXCEPT ![p] = 0]
    /\ UNCHANGED <<now, water_journal, cut_journal, required, branches, update_data>>
    /\ UNCHANGED audit_vars

\* robot.tank_volume = new_volume, new_volume a number
tank_volume_setter(p, new_volume) ==
    /\ pc[p] \in Stopped
    /\ IF new_volume <= 0
       THEN \* raise ValueError("Volume should be > 0")
            /\ returned' = [op |-> "tank_volume", outcome |-> "ValueError",
                            value |-> new_volume]
            /\ UNCHANGED volume
       ELSE /\ volume' = [volume EXCEPT ![p] = new_volume]
            /\ returned' = [op |-> "tank_volume", outcome |-> "returned",
                            value |-> new_volume]
    /\ UNCHANGED <<now, water_journal, cut_journal, pc, water_level, required,
                   branches, update_data, attempts, refills, recorded>>
    /\ UNCHANGED <<ordering_errors, started_on>>

\* robot.refill_tank() called outside the script's except block
refill_tank_call(p) ==
    /\ pc[p] \in Stopped
    /\ water_level' = [water_level EXCEPT ![p] = volume[p]]
    /\ UNCHANGED <<now, water_journal, cut_journal, pc, volume, required,
                   branches, update_data, attempts, refills, recorded>>
    /\ UNCHANGED audit_vars

\* the try statement of watering_script.py entered with the robot as it is
WaterCycleStart(p) ==
    /\ pc[p] \in Stopped
    /\ Len(water_journal) < MaxEntries
    /\ pc' = [pc EXCEPT ![p] = "w_read"]
    /\ attempts' = [attempts EXCEPT ![p] = 0]
    /\ refills' = [refills EXCEPT ![p] = 0]
    /\ recorded' = [recorded EXCEPT ![p] = 0]
    /\ started_on' = DayOf(now)
    /\ UNCHANGED <<now, water_journal, cut_journal, volume, water_level,
                   required, branches, update_data>>
    /\ UNCHANGED <<ordering_errors, returned>>

NextRobot ==
    \/ Tick
    \/ \E v \in RobotVolumes : WaterRobot_init(TestRobot, v)
    \/ \E v \in RobotVolumes : tank_volume_setter(TestRobot, v)
    \/ refill_tank_call(TestRobot)
    \/ WaterCycleStart(TestRobot)
    \/ WaterRead(TestRobot)
    \/ WaterCheck(TestRobot)
    \/ WaterInsert(TestRobot)
    \/ refill_tank(TestRobot)

SpecRobot == Init /\ [][NextRobot]_vars

\* ============================================================ quota claims
Clamp(x) == IF x < 0 THEN 0 ELSE x

\* the day whose Monday starts the week of day d
MondayOf(d) == d - weekday(d)

\* the amount recorded with a timestamp on calendar day d
DayTotal(journal, d) ==
    SumAmounts(SelectSeq(journal, LAMBDA e : DayOf(e.timestamp) = d))

\* the amount recorded with a timestamp in the week (Monday to Sunday) of day d
WeekTotal(journal, d) ==
    SumAmounts(SelectSeq(journal, LAMBDA e : MondayOf(DayOf(e.timestamp)) = MondayOf(d)))

\* C1: the remaining water and the remaining cuts are never negative, are
\* exactly 0 once the amount recorded in the current day (resp. week) has
\* reached max_water (resp. max_branches), and never increase when a further
\* entry with a non-negative amount is inserted (C1_InsertNeverRaisesQuota).
C1_QuotaClampedAtZero ==
    /\ get_required_amount_of_water(water_journal, now) >= 0
    /\ get_number_of_branches_to_cut(cut_journal, now) >= 0
    /\ DayTotal(water_journal, DayOf(now)) >= max_water
          => get_required_amount_of_water(water_journal, now) = 0
    /\ WeekTotal(cut_journal, DayOf(now)) >= max_branches
          => get_number_of_branches_to_cut(cut_journal, now) = 0

\* The parts of C1 that do not depend on where the window starts: the result is
\* never negative, is 0 once the sum the query returns has reached the limit,
\* and an insert never raises the result of a read made at the same time.
C1_ClampedOnQueriedSum ==
    /\ get_required_amount_of_water(water_journal, now) \in 0..max_water
    /\ get_number_of_branches_to_cut(cut_journal, now) \in 0..max_branches
    /\ sum_by_field_value(water_journal, today(now)) >= max_water
          => get_required_amount_of_water(water_journal, now) = 0
    /\ sum_by_field_value(cut_journal, monday_date(now)) >= max_branches
          => get_number_of_branches_to_cut(cut_journal, now) = 0

C1_InsertNeverRaisesQuota ==
    [][/\ get_required_amount_of_water(water_journal', now)
            <= get_required_amount_of_water(water_journal, now)
       /\ get_number_of_branches_to_cut(cut_journal', now)
            <= get_number_of_branches_to_cut(cut_journal, now)]_vars

\* C2: the quota window starts at the floor of the read time: a read at time
\* t subtracts every Water entry stamped at or after midnight of t's day
\* (every Cut entry stamped at or after midnight of the Monday of t's week).
C2_WindowStartsAtFloor ==
    /\ get_required_amount_of_water(water_journal, now)
         = Clamp(max_water
                 - SumAmounts(Matching(water_journal, Midnight(DayOf(now)))))
    /\ get_number_of_branches_to_cut(cut_journal, now)
         = Clamp(max_branches
                 - SumAmounts(Matching(cut_journal, Midnight(MondayOf(DayOf(now))))))

\* ======================================================= water agent claims
\* The first call of water_tree of process p has ended (it returned or raised).
FirstCallEnded(p) ==
    /\ attempts[p] = 1
    /\ pc[p] \in {"w_refill", "w_done", "w_failed"}

\* The WaterJournal holds nothing but what the current run of p recorded: the
\* store was empty when the run started and no other process wrote to it.
OnlyOwnEntries(p) == Len(water_journal) = recorded[p]

\* C3 as stated: a robot constructed with capacity 5 calls water_tree on an
\* empty store; the call records exactly one entry of max_water litres and
\* leaves the level at 3.
C3_FirstCallRecords ==
    \A p \in Procs :
        (FirstCallEnded(p) /\ volume[p] = ScriptVolume /\ OnlyOwnEntries(p))
            => /\ recorded[p] = 1
               /\ water_journal[1].amount = max_water
               /\ water_level[p] = ScriptVolume - max_water

\* C3 amended: the robot is constructed with level 0, so on an empty store
\* the first call of water_tree raises NotEnoughWaterError and records
\* nothing; the run of the script (refill, second call) ends with exactly one
\* entry of max_water litres recorded and the level at 3.
C3_CycleRecordsOnce ==
    \A p \in Procs :
        /\ (FirstCallEnded(p) /\ volume[p] = ScriptVolume /\ water_journal = <<>>)
              => /\ pc[p] = "w_refill"
                 /\ recorded[p] = 0
                 /\ water_level[p] = 0
        /\ (pc[p] = "w_done" /\ volume[p] = ScriptVolume /\ OnlyOwnEntries(p))
              => /\ attempts[p] = 2
                 /\ refills[p] = 1
                 /\ recorded[p] = 1
                 /\ water_journal[1].amount = max_water
                 /\ water_journal[1].robot_id = "w1"
                 /\ water_level[p] = ScriptVolume - max_water

C3_Witness ==
    \E p \in Procs :
        /\ pc[p] = "w_done"
        /\ OnlyOwnEntries(p)
        /\ Len(water_journal) = 1
        /\ water_journal[1].amount = 2
        /\ water_level[p] = 3

C6_WaterOrFail ==
    [][\A p \in Procs :
          /\ (pc[p] = "w_check" /\ required[p] > 0 /\ pc'[p] # "w_check")
                => /\ water_journal' = water_journal
                   /\ cut_journal' = cut_journal
                   /\ recorded'[p] = recorded[p]
                   /\ IF required[p] > water_level[p]
                      THEN /\ pc'[p] \in {"w_refill", "w_failed"}
                           /\ water_level'[p] = water_level[p]
                      ELSE /\ pc'[p] = "w_insert"
                           /\ water_level'[p] = water_level[p] - required[p]
                           /\ update_data'[p].amount = required[p]
          /\ (pc[p] = "w_insert" /\ pc'[p] # "w_insert")
                => /\ pc'[p] = "w_done"
                   /\ Len(water_journal') = Len(water_journal) + 1
                   /\ SubSeq(water_journal', 1, Len(water_journal)) = water_journal
                   /\ water_journal'[Len(water_journal')].amount = required[p]
                   /\ cut_journal' = cut_journal
                   /\ water_level'[p] = water_level[p]
                   /\ recorded'[p] = recorded[p] + 1]_vars

\* one call has failed and left level and journal as they were, another has
\* watered
C6_Witness ==
    \E p, q \in Procs :
        /\ pc[p] = "w_refill"
        /\ water_level[p] = DefaultWaterLevel
        /\ recorded[p] = 0
        /\ pc[q] = "w_done"
        /\ recorded[q] = 1
        /\ water_level[q] = volume[q] - max_water
        /\ Len(water_journal) = 1

\* C7: in one run of watering_script.py water_tree is called first; refill_tank
\* is called only after that call raised, at most once, and is followed by
\* exactly one more call whose error ends the run: at most two calls, at most
\* one refill and at most one recorded entry per run.
C7_OneRefillOneRetry ==
    \A p \in Procs :
        /\ attempts[p] <= 2
        /\ refills[p] <= 1
        /\ recorded[p] <= 1
        /\ refills[p] = 1 => attempts[p] >= 1
        /\ attempts[p] = 2 => refills[p] = 1
        /\ pc[p] = "w_refill" => (attempts[p] = 1 /\ refills[p] = 0 /\ recorded[p] = 0)
        /\ pc[p] = "w_failed" => (attempts[p] = 2 /\ refills[p] = 1 /\ recorded[p] = 0)
        /\ (pc[p] \in {"w_done", "w_failed"} /\ refills[p] = 1) => attempts[p] = 2

C7_Witness ==
    \E p \in Procs :
        /\ pc[p] = "w_done"
        /\ attempts[p] = 2
        /\ refills[p] = 1
        /\ recorded[p] = 1

\* ========================================================= cut agent claims
\* C5: cut_branches appends at most one Cut entry, whose amount is exactly the
\* quota it read; it appends none exactly when the quota it read is 0.
C5_CutsFullQuotaOrNothing ==
    [][\A p \in Procs :
          /\ (pc[p] = "c_check" /\ pc'[p] # "c_check")
                => /\ cut_journal' = cut_journal
                   /\ recorded'[p] = 0
                   /\ IF branches[p] = 0
                      THEN pc'[p] = "c_done"
                      ELSE pc'[p] = "c_insert" /\ update_data'[p].amount = branches[p]
          /\ (pc[p] = "c_insert" /\ pc'[p] # "c_insert")
                => /\ pc'[p] = "c_done"
                   /\ branches[p] # 0
                   /\ Len(cut_journal') = Len(cut_journal) + 1
                   /\ SubSeq(cut_journal', 1, Len(cut_journal)) = cut_journal
                   /\ cut_journal'[Len(cut_journal')].amount = branches[p]
                   /\ water_journal' = water_journal
                   /\ recorded'[p] = 1]_vars

\* one run has cut the full quota of 8, a later one found nothing to cut
C5_Witness ==
    \E p, q \in Procs :
        /\ pc[p] = "c_done"
        /\ recorded[p] = 1
        /\ pc[q] = "c_done"
        /\ recorded[q] = 0
        /\ Len(cut_journal) = 1
        /\ cut_journal[1].amount = max_branches

\* ================================================================== races
\* C8: nothing excludes a second quota read between a quota read and the
\* insert that follows it.  Whenever two runs of the same script have both
\* read a positive quota and neither has inserted yet, each insert is enabled
\* and stays so, and the two amounts for one day (week) exceed the limit.
C8_NoMutualExclusion ==
    \A p, q \in Procs :
        (p # q /\ pc[p] = pc[q] /\ pc[p] \in {"w_insert", "c_insert"})
            => /\ ENABLED WaterInsert(p) \/ ENABLED CutInsert(p)
               /\ ENABLED WaterInsert(q) \/ ENABLED CutInsert(q)
               /\ update_data[p].amount > 0
               /\ update_data[q].amount > 0
               /\ LET dp == DayOf(update_data[p].timestamp)
                      dq == DayOf(update_data[q].timestamp)
                      both == update_data[p].amount + update_data[q].amount
                  IN  /\ (pc[p] = "w_insert" /\ dp = dq)
                            => DayTotal(water_journal, dp) + both > max_water
                      /\ (pc[p] = "c_insert" /\ MondayOf(dp) = MondayOf(dq))
                            => WeekTotal(cut_journal, dp) + both > max_branches

\* Two watering runs have both recorded, with the same timestamp: neither can
\* have read the quota after the other's insert (it would have counted the
\* entry and read 0), and the day's total exceeds max_water.
C8_Witness ==
    \E p, q \in Procs :
        /\ p # q
        /\ pc[p] = "w_done" /\ recorded[p] = 1
        /\ pc[q] = "w_done" /\ recorded[q] = 1
        /\ Len(water_journal) = 2
        /\ water_journal[1].timestamp = water_journal[2].timestamp
        /\ DayTotal(water_journal, DayOf(water_journal[1].timestamp)) > max_water

\* ========================================================= ordering audit
\* The documents of a collection as find().sort("_id", 1) returns them: in
\* insertion order (an ObjectId is taken to grow with each insert), the
\* position standing for the _id.
id_sort(collection) ==
    [i \in 1..Len(collection) |-> [id |-> i, timestamp |-> collection[i].timestamp]]

IsPermutation(f, n) == \A i, j \in 1..n : f[i] = f[j] => i = j

\* What find().sort("timestamp", 1) may return: the documents in ascending
\* order of timestamp, documents with equal timestamps in any order.
time_sorts(collection) ==
    LET n == Len(collection)
        docs == id_sort(collection)
    IN  {[i \in 1..n |-> docs[f[i]]] :
            f \in {g \in [1..n -> 1..n] :
                      /\ IsPermutation(g, n)
                      /\ \A i \in 1..n : \A j \in i..n :
                            docs[g[i]].timestamp <= docs[g[j]].timestamp}}

\* C9 (mutant): the comparison also true of equal timestamps
Misplaced_or_equal(id_sort_res, i) == id_sort_res[i].timestamp >= id_sort_res[i + 1].timestamp

\* C10 (mutant): the identifier of the later entry of the pair appended
Flagged_next(id_sort_res, i) == id_sort_res[i + 1].id

\* the condition of the loop body: if id_sort_res[i]["timestamp"] >
\* id_sort_res[i + 1]["timestamp"]
Misplaced(id_sort_res, i) == id_sort_res[i].timestamp > id_sort_res[i + 1].timestamp

\* the identifier the loop body appends: entry["_id"], entry = id_sort_res[i]
Flagged(id_sort_res, i) == id_sort_res[i].id

\* for i, entry in enumerate(id_sort_res[:-1]), from position i on
RECURSIVE walk(_, _)
walk(id_sort_res, i) ==
    IF i > Len(id_sort_res) - 1 THEN <<>>
    ELSE (IF Misplaced(id_sort_res, i) THEN <<Flagged(id_sort_res, i)>> ELSE <<>>)
           \o walk(id_sort_res, i + 1)

\* C15 (mutant): the identifiers at the positions where the two sorts differ
collection_ordering_errors_positional(id_sort_res, time_sort_res) ==
    SelectSeq([i \in 1..Len(id_sort_res) |->
                  IF id_sort_res[i] # time_sort_res[i] THEN id_sort_res[i].id ELSE 0],
              LAMBDA x : x # 0)

\* the list built for one collection
collection_ordering_errors(id_sort_res, time_sort_res) ==
    IF id_sort_res # time_sort_res THEN walk(id_sort_res, 1) ELSE <<>>

\* db.list_collection_names(): a collection exists once a document has been
\* inserted into it
list_collection_names ==
    {c \in {"WaterJournal", "CutJournal"} :
        (IF c = "WaterJournal" THEN water_journal ELSE cut_journal) # <<>>}

db(c) == IF c = "WaterJournal" THEN water_journal ELSE cut_journal

get_ordering_errors ==
    /\ \E tw \in time_sorts(water_journal) : \E tc \in time_sorts(cut_journal) :
          ordering_errors' =
              [c \in list_collection_names |->
                  collection_ordering_errors(
                      id_sort(db(c)), IF c = "WaterJournal" THEN tw ELSE tc)]
    /\ UNCHANGED <<now, water_journal, cut_journal, pvars, returned, started_on>>

\* The audit as a function of the journals: the collections hold any entries,
\* in any order of timestamps, and the audit is called on them.
AuditTimes == 0..MaxAuditTime

RECURSIVE SeqsUpTo(_, _)
SeqsUpTo(S, n) ==
    IF n = 0 THEN {<<>>}
    ELSE LET shorter == SeqsUpTo(S, n - 1)
         IN  shorter \cup {Append(q, x) : q \in shorter, x \in S}

AuditJournals(robot_id, amount) ==
    SeqsUpTo([robot_id : {robot_id}, amount : {amount}, timestamp : AuditTimes],
             MaxAuditLen)

InitAudit ==
    /\ now = 0
    /\ water_journal \in AuditJournals("w1", max_water)
    /\ cut_journal \in AuditJournals("c1", max_branches)
    /\ InitProcs

NextAudit == get_ordering_errors

SpecAudit == InitAudit /\ [][NextAudit]_vars

\* the positions of the timestamp inversions of a collection, ascending
Inversions(collection) ==
    {i \in 1..(Len(collection) - 1) : collection[i].timestamp > collection[i + 1].timestamp}

IsAscending(ids) == \A i, j \in 1..Len(ids) : i < j => ids[i] < ids[j]

NonDecreasing(collection) ==
    \A i, j \in 1..Len(collection) :
        i < j => collection[i].timestamp <= collection[j].timestamp

\* C9: for each collection get_ordering_errors returns exactly the identifiers
\* of the entries at the positions i of the insertion order with timestamp[i] >
\* timestamp[i+1], in insertion order; the list is empty exactly when the
\* timestamps are non-decreasing in insertion order, whichever order the
\* timestamp sort gives to equal timestamps.
C9_ExactlyTheInversions ==
    ordering_errors # NotCalled =>
        /\ DOMAIN ordering_errors = list_collection_names
        /\ \A c \in list_collection_names :
              LET ids == ordering_errors[c]
              IN  /\ {ids[k] : k \in 1..Len(ids)} = Inversions(db(c))
                  /\ IsAscending(ids)
                  /\ (ids = <<>>) <=> NonDecreasing(db(c))

\* the audit has run on a collection with an inversion and a tie
C9_Witness ==
    /\ ordering_errors # NotCalled
    /\ Len(water_journal) = 3
    /\ water_journal[1].timestamp > water_journal[2].timestamp
    /\ water_journal[2].timestamp = water_journal[3].timestamp
    /\ ordering_errors["WaterJournal"] = <<1>>
    /\ Len(cut_journal) = 2
    /\ cut_journal[1].timestamp = cut_journal[2].timestamp
    /\ ordering_errors["CutJournal"] = <<>>

\* timestamps [10:00, 09:00, 11:00] in insertion order
Scenario10(collection) ==
    /\ Len(collection) = 3
    /\ collection[2].timestamp < collection[1].timestamp
    /\ collection[1].timestamp < collection[3].timestamp

\* C10 as stated: on [10:00, 09:00, 11:00] the audit flags entry 2; a flagged
\* entry is one whose timestamp is lower than that of the entry before it.
C10_FlagsLaterEntry ==
    ordering_errors # NotCalled =>
        \A c \in list_collection_names :
            LET ids == ordering_errors[c]
            IN  /\ Scenario10(db(c)) => ids = <<2>>
                /\ \A k \in 1..Len(ids) :
                      /\ ids[k] > 1
                      /\ db(c)[ids[k]].timestamp < db(c)[ids[k] - 1].timestamp

\* C10 amended: on [10:00, 09:00, 11:00] the audit flags entry 1 (10:00); a
\* flagged entry is one whose timestamp is higher than that of the entry
\* inserted just after it.
C10_FlagsEarlierEntry ==
    ordering_errors # NotCalled =>
        \A c \in list_collection_names :
            LET ids == ordering_errors[c]
            IN  /\ Scenario10(db(c)) => ids = <<1>>
                /\ \A k \in 1..Len(ids) :
                      /\ ids[k] < Len(db(c))
                      /\ db(c)[ids[k]].timestamp > db(c)[ids[k] + 1].timestamp

C10_Witness ==
    /\ ordering_errors # NotCalled
    /\ Scenario10(water_journal)
    /\ ordering_errors["WaterJournal"] = <<1>>

\* ============================================================ range audits
\* DBHelper.sum_field_by_date: one document per calendar day that has an
\* entry, with the day's total.  The $sort stage names fields the grouped
\* documents do not have, so the order is not determined: a set.
sum_field_by_date(collection) ==
    {[date |-> d, amount |-> DayTotal(collection, d)] :
        d \in {DayOf(collection[i].timestamp) : i \in 1..Len(collection)}}

\* sorted(existing_data, key=lambda x: x.date), the dates being distinct
RECURSIVE sorted_by_date(_)
sorted_by_date(S) ==
    IF S = {} THEN <<>>
    ELSE LET first == CHOOSE x \in S : \A y \in S : x.date <= y.date
         IN  <<first>> \o sorted_by_date(S \ {first})

\* for i in range(total_days), from i on: the days start + i that have no
\* entry are appended with amount 0
RECURSIVE fill_days(_, _, _, _)
fill_days(existing_data, existing_dates, start, i) ==
    IF i >= existing_dates[Len(existing_dates)] - start THEN existing_data
    ELSE fill_days(
             IF \E k \in 1..Len(existing_dates) : existing_dates[k] = start + i
             THEN existing_data
             ELSE Append(existing_data, [date |-> start + i, amount |-> 0]),
             existing_dates, start, i + 1)

\* existing_data of get_water_errors after the loop
water_days(collection) ==
    LET existing_data == sorted_by_date(sum_field_by_date(collection))
        existing_dates == [k \in 1..Len(existing_data) |-> existing_data[k].date]
    IN  fill_days(existing_data, existing_dates, existing_dates[1], 0)

\* mutant of WrongWater: a day with exactly max_water counts as wrong
WrongWater_max_exclusive(day) == ~(min_water <= day.amount /\ day.amount < max_water)

\* not (self.min_water <= day.amount <= self.max_water)
WrongWater(day) == ~(min_water <= day.amount /\ day.amount <= max_water)

\* what a call of get_water_errors ends with: existing_dates[0] raises
\* IndexError on an empty list
water_errors(collection) ==
    IF sum_field_by_date(collection) = {}
    THEN [op |-> "get_water_errors", outcome |-> "IndexError", value |-> <<>>]
    ELSE [op |-> "get_water_errors", outcome |-> "returned",
          value |-> SelectSeq(water_days(collection), WrongWater)]

get_water_errors ==
    /\ returned' = water_errors(water_journal)
    /\ UNCHANGED <<now, water_journal, cut_journal, pvars, ordering_errors, started_on>>

\* $week of a timestamp: weeks begin on Sundays and are numbered within the
\* year; day 0 is taken to be the first Sunday of its year, which begins week
\* FirstWeek, and the days modelled stay within that year
week_number(t) == FirstWeek + (DayOf(t) \div DaysPerWeek)

\* DBHelper.sum_field_by_week: one document per week number that has an
\* entry, with the week's total.  The $sort stage names a field the grouped
\* documents do not have, so the order is not determined: a set.
sum_field_by_week(collection) ==
    {[week_number |-> w,
      amount |-> SumAmounts(SelectSeq(collection,
                     LAMBDA e : week_number(e.timestamp) = w))] :
        w \in {week_number(collection[i].timestamp) : i \in 1..Len(collection)}}

\* sorted(week_data, key=lambda x: x.week_number), the numbers being distinct
RECURSIVE sorted_by_week(_)
sorted_by_week(S) ==
    IF S = {} THEN <<>>
    ELSE LET first == CHOOSE x \in S : \A y \in S : x.week_number <= y.week_number
         IN  <<first>> \o sorted_by_week(S \ {first})

\* for week_number in range(start.week_number, stop.week_number), from w on:
\* the weeks that have no entry are appended with amount 0
RECURSIVE fill_weeks(_, _, _, _)
fill_weeks(week_data, existing_weeks, stop, w) ==
    IF w >= stop THEN week_data
    ELSE fill_weeks(
             IF \E k \in 1..Len(existing_weeks) : existing_weeks[k] = w
             THEN week_data
             ELSE Append(week_data, [week_number |-> w, amount |-> 0]),
             existing_weeks, stop, w + 1)

\* week_data of get_cut_errors after the loop
cut_weeks(collection) ==
    LET week_data == sorted_by_week(sum_field_by_week(collection))
        existing_weeks == [k \in 1..Len(week_data) |-> week_data[k].week_number]
    IN  fill_weeks(week_data, existing_weeks,
                   week_data[Len(week_data)].week_number, week_data[1].week_number)

\* mutant of WrongBranches: a week with exactly max_branches counts as wrong
WrongBranches_max_exclusive(week) ==
    ~(min_branches <= week.amount /\ week.amount < max_branches)

\* not self.min_branches <= week.amount <= self.max_branches
WrongBranches(week) == ~(min_branches <= week.amount /\ week.amount <= max_branches)

\* what a call of get_cut_errors ends with: week_data[0] raises IndexError on
\* an empty list
cut_errors(collection) ==
    IF sum_field_by_week(collection) = {}
    THEN [op |-> "get_cut_errors", outcome |-> "IndexError", value |-> <<>>]
    ELSE [op |-> "get_cut_errors", outcome |-> "returned",
          value |-> SelectSeq(cut_weeks(collection), WrongBranches)]

get_cut_errors ==
    /\ returned' = cut_errors(cut_journal)
    /\ UNCHANGED <<now, water_journal, cut_journal, pvars, ordering_errors, started_on>>

\* The range audits as functions of one collection: it holds any entries of
\* the days 0..MaxRangeDay (of the weeks 0..MaxRangeWeek), the other is empty.
RangeEntries(robot_id, amounts, times) ==
    SeqsUpTo([robot_id : {robot_id}, amount : amounts, timestamp : times], MaxRangeLen)

WaterRangeJournals ==
    RangeEntries("w1", {1, 3}, {Midnight(d) : d \in 0..MaxRangeDay})

\* the Saturday of each week, and the Sunday that begins the first
CutRangeJournals ==
    RangeEntries("c1", {3, 5},
        {Midnight(0)} \cup
        {Midnight(DaysPerWeek * w + DaysPerWeek - 1) : w \in 0..MaxRangeWeek})

InitRange ==
    /\ now = 0
    /\ water_journal \in WaterRangeJournals
    /\ cut_journal \in CutRangeJournals
    /\ water_journal = <<>> \/ cut_journal = <<>>
    /\ InitProcs

\* the quota queries called on their own, as a script's robot calls them
required_amount_of_water_call ==
    /\ returned' = [op |-> "get_required_amount_of_water", outcome |-> "returned",
                    value |-> get_required_amount_of_water(water_journal, now)]
    /\ UNCHANGED <<now, water_journal, cut_journal, pvars, ordering_errors, started_on>>

number_of_branches_to_cut_call ==
    /\ returned' = [op |-> "get_number_of_branches_to_cut", outcome |-> "returned",
                    value |-> get_number_of_branches_to_cut(cut_journal, now)]
    /\ UNCHANGED <<now, water_journal, cut_journal, pvars, ordering_errors, started_on>>

NextRange ==
    \/ get_water_errors
    \/ get_cut_errors
    \/ get_ordering_errors
    \/ required_amount_of_water_call
    \/ number_of_branches_to_cut_call

SpecRange == InitRange /\ [][NextRange]_vars

\* the days from the first to the last day that has an entry
DayRange(collection) ==
    LET days == {DayOf(collection[i].timestamp) : i \in 1..Len(collection)}
    IN  {d \in 0..MaxRangeDay : (\E a \in days : a <= d) /\ (\E b \in days : d <= b)}

\* C11: get_water_errors evaluates every calendar day from the first to the
\* last day with an entry exactly once, a day without entries with total 0,
\* and returns a day exactly when its total is outside [min_water, max_water].
C11_EveryDayOnce ==
    (returned.op = "get_water_errors" /\ returned.outcome = "returned") =>
        LET days == water_days(water_journal)
            errors == returned.value
        IN  /\ {days[k].date : k \in 1..Len(days)} = DayRange(water_journal)
            /\ \A j, k \in 1..Len(days) : days[j].date = days[k].date => j = k
            /\ \A k \in 1..Len(days) :
                  days[k].amount = DayTotal(water_journal, days[k].date)
            /\ \A j, k \in 1..Len(errors) : errors[j].date = errors[k].date => j = k
            /\ \A d \in DayRange(water_journal) :
                  (\E k \in 1..Len(errors) :
                      errors[k] = [date |-> d, amount |-> DayTotal(water_journal, d)])
                  <=> ~(DayTotal(water_journal, d) \in min_water..max_water)
            /\ \A k \in 1..Len(errors) : errors[k].date \in DayRange(water_journal)

\* entries on day 0 and day 2 with totals in the range, none on day 1: day 1
\* alone is returned, with amount 0
C11_Witness ==
    /\ returned.op = "get_water_errors"
    /\ Len(water_journal) = 3
    /\ DayTotal(water_journal, 0) = 2
    /\ DayTotal(water_journal, 1) = 0
    /\ DayTotal(water_journal, 2) = 1
    /\ returned.value = <<[date |-> 1, amount |-> 0]>>

\* the week numbers from the first to the last week that has an entry
WeekRange(collection) ==
    LET weeks == {week_number(collection[i].timestamp) : i \in 1..Len(collection)}
    IN  {w \in FirstWeek..(FirstWeek + MaxRangeWeek) :
            (\E a \in weeks : a <= w) /\ (\E b \in weeks : w <= b)}

\* the branches of the entries of week number w
WeekNumberTotal(collection, w) ==
    SumAmounts(SelectSeq(collection, LAMBDA e : week_number(e.timestamp) = w))

\* C12: get_cut_errors evaluates every week number from the first to the
\* last week with an entry, the last included, exactly once, a week without
\* entries with total 0, and returns a week exactly when its total is outside
\* [min_branches, max_branches].
C12_EveryWeekOnce ==
    (returned.op = "get_cut_errors" /\ returned.outcome = "returned") =>
        LET weeks == cut_weeks(cut_journal)
            wrong_weeks == returned.value
        IN  /\ {weeks[k].week_number : k \in 1..Len(weeks)} = WeekRange(cut_journal)
            /\ \A j, k \in 1..Len(weeks) :
                  weeks[j].week_number = weeks[k].week_number => j = k
            /\ \A k \in 1..Len(weeks) :
                  weeks[k].amount = WeekNumberTotal(cut_journal, weeks[k].week_number)
            /\ \A j, k \in 1..Len(wrong_weeks) :
                  wrong_weeks[j].week_number = wrong_weeks[k].week_number => j = k
            /\ \A w \in WeekRange(cut_journal) :
                  (\E k \in 1..Len(wrong_weeks) :
                      wrong_weeks[k] = [week_number |-> w,
                                        amount |-> WeekNumberTotal(cut_journal, w)])
                  <=> ~(WeekNumberTotal(cut_journal, w) \in min_branches..max_branches)
            /\ \A k \in 1..Len(wrong_weeks) :
                  wrong_weeks[k].week_number \in WeekRange(cut_journal)

\* 5 branches in the first week, none in the second, 3 + 3 in the last: the
\* second week is returned with 0 and the last week is evaluated and passes
C12_Witness ==
    /\ returned.op = "get_cut_errors"
    /\ Len(cut_journal) = 3
    /\ WeekNumberTotal(cut_journal, FirstWeek) = 5
    /\ WeekNumberTotal(cut_journal, FirstWeek + 1) = 0
    /\ WeekNumberTotal(cut_journal, FirstWeek + 2) = 6
    /\ returned.value = <<[week_number |-> FirstWeek + 1, amount |-> 0]>>

\* C13: get_water_errors returns the flagged days in ascending date order,
\* also when flagged days without entries lie between flagged days with
\* entries.
C13_AscendingDates ==
    (returned.op = "get_water_errors" /\ returned.outcome = "returned") =>
        \A j, k \in 1..Len(returned.value) :
            j < k => returned.value[j].date < returned.value[k].date

\* C14: a range audit of a collection with no entries, or with entries of a
\* single day (week), ends in the error InsufficientData: it neither returns
\* nor fails by indexing an empty list.
C14_InsufficientData ==
    /\ (returned.op = "get_water_errors"
            /\ Cardinality(sum_field_by_date(water_journal)) <= 1)
        => returned.outcome = "InsufficientData"
    /\ (returned.op = "get_cut_errors"
            /\ Cardinality(sum_field_by_week(cut_journal)) <= 1)
        => returned.outcome = "InsufficientData"

\* C15: the quota queries and the three audits leave both journals as they
\* are, and get_ordering_errors called again on the unchanged journals
\* returns what it returned before.
C15_ReadOnly ==
    [][/\ water_journal' = water_journal
       /\ cut_journal' = cut_journal
       /\ ordering_errors # NotCalled => ordering_errors' = ordering_errors]_vars

\* every read operation has been called on a journal that holds two entries
\* of one timestamp and an inversion
C15_Witness ==
    /\ ordering_errors # NotCalled
    /\ returned.op = "get_required_amount_of_water"
    /\ Len(water_journal) = 3
    /\ water_journal[1].timestamp > water_journal[2].timestamp
    /\ water_journal[2].timestamp = water_journal[3].timestamp
    /\ ordering_errors["WaterJournal"] = <<1>>

\* q is p with one entry added at the end, or p itself
ExtendedByAtMostOne(p, q) == q = p \/ (Len(q) = Len(p) + 1 /\ SubSeq(q, 1, Len(p)) = p)

\* C16: Journal.update inserts exactly one entry, the robot's update_data,
\* into the journal of the robot's kind and changes nothing else; no step
\* removes or alters an entry of either journal, and a step that inserts into
\* one journal leaves the other as it is.
C16_OneInsertOwnJournal ==
    [][/\ ExtendedByAtMostOne(water_journal, water_journal')
       /\ ExtendedByAtMostOne(cut_journal, cut_journal')
       /\ water_journal' = water_journal \/ cut_journal' = cut_journal
       /\ \A p \in Procs :
             /\ (pc[p] = "w_insert" /\ pc'[p] # "w_insert") =>
                   /\ water_journal' = Append(water_journal, update_data[p])
                   /\ update_data[p].robot_id = "w1"
                   /\ cut_journal' = cut_journal
                   /\ <<now, volume, water_level>>' = <<now, volume, water_level>>
             /\ (pc[p] = "c_insert" /\ pc'[p] # "c_insert") =>
                   /\ cut_journal' = Append(cut_journal, update_data[p])
                   /\ update_data[p].robot_id = "c1"
                   /\ water_journal' = water_journal
                   /\ <<now, volume, water_level>>' = <<now, volume, water_level>>
       /\ (water_journal' # water_journal \/ cut_journal' # cut_journal) =>
             \E p \in Procs :
                 pc[p] \in {"w_insert", "c_insert"} /\ pc'[p] # pc[p]]_vars

\* a watering run and a cutting run have each recorded their entry
C16_Witness ==
    /\ Len(water_journal) = 1
    /\ Len(cut_journal) = 1
    /\ water_journal[1].robot_id = "w1"
    /\ cut_journal[1].robot_id = "c1"
    /\ \E p, q \in Procs :
          pc[p] = "w_done" /\ recorded[p] = 1 /\ pc[q] = "c_done" /\ recorded[q] = 1

\* C17: no WaterRobot has a tank volume that is not positive, whether the
\* volume was given to the constructor or set later.
C17_VolumePositive == volume[TestRobot] > 0

\* C20: the water level of a WaterRobot constructed with the default level
\* is between 0 and its tank volume, whatever cycles, refills and changes of
\* the volume follow (stated of robots whose volume is positive).
C20_LevelWithinTank ==
    volume[TestRobot] > 0 =>
        (0 <= water_level[TestRobot] /\ water_level[TestRobot] <= volume[TestRobot])

\* the water cycle of the robot under test takes its last step
CycleEnds == pc[TestRobot] \notin Stopped /\ pc'[TestRobot] \in Stopped

\* every step of a cycle in progress is followed by another or was the last,
\* and a cycle is at most two calls of water_tree and one refill
CycleProceeds ==
    /\ pc[TestRobot] \notin Stopped =>
          ENABLED (\/ WaterRead(TestRobot) \/ WaterCheck(TestRobot)
                   \/ WaterInsert(TestRobot) \/ refill_tank(TestRobot))
    /\ attempts[TestRobot] <= 2
    /\ refills[TestRobot] <= 1

\* C19 as stated: with a tank volume of at least max_water a water cycle
\* ends without error from any water level, and when it ends the water
\* recorded for the current day is at least max_water.
C19_CycleWatersToday ==
    [][/\ CycleProceeds
       /\ (CycleEnds /\ volume[TestRobot] >= max_water) =>
             /\ pc'[TestRobot] = "w_done"
             /\ DayTotal(water_journal', DayOf(now')) >= max_water]_vars

\* C19: with a tank volume of at least max_water a water cycle ends without
\* error from any water level, and when it ends on the date on which it was
\* started the water recorded for that day is at least max_water.
C19_CycleWatersStartDay ==
    [][/\ CycleProceeds
       /\ (CycleEnds /\ volume[TestRobot] >= max_water) =>
             /\ pc'[TestRobot] = "w_done"
             /\ started_on = DayOf(now') =>
                   DayTotal(water_journal', started_on) >= max_water]_vars

\* a cycle of a robot whose volume is exactly max_water, started with less
\* water than required, has refilled, watered and ended on the day it began
C19_Witness ==
    /\ pc[TestRobot] = "w_done"
    /\ volume[TestRobot] = max_water
    /\ refills[TestRobot] = 1
    /\ recorded[TestRobot] = 1
    /\ started_on = DayOf(now)
    /\ started_on = MaxDay
    /\ DayTotal(water_journal, started_on) = max_water

\* C18: when the scripts run one at a time and only they write the journals,
\* the water recorded for a calendar day never exceeds max_water and the
\* branches recorded for a calendar week never exceed max_branches.
C18_CapsHold ==
    \A d \in 0..MaxDay :
        /\ DayTotal(water_journal, d) <= max_water
        /\ WeekTotal(cut_journal, d) <= max_branches

====
